---- MODULE Spec2Model ----
(***************************************************************************)
(* Model of include/verilated_imp.h: the threaded message queues           *)
(* (VerilatedMsg, VerilatedEvalMsgQueue, VerilatedThreadMsgQueue) and the  *)
(* VerilatedImp registry (user data, scope names, export numbers, the      *)
(* argument store and the file table).                                     *)
(*                                                                         *)
(* Thread 0 is the main eval thread, the single consumer that calls        *)
(* VerilatedEvalMsgQueue::process(); threads 1 and 2 are the worker  *)
(* threads that run mtasks and call VerilatedThreadMsgQueue::post/flush.   *)
(* Every step of a thread is one action; a step ends where another thread  *)
(* can observe or change what the next statement reads (a mutex            *)
(* acquisition, an access to an atomic).                                   *)
(***************************************************************************)
EXTENDS Integers, Sequences, FiniteSets

\* ------------------------------------------------------------------ bounds
MaxTask == 2        \* mtask identifiers are 1..MaxTask; 0 is "outside any mtask"
MaxMsgs == 2        \* messages constructed in one behaviour
MaxScopes == 3      \* VerilatedScope objects; scopes s and s + 2 carry the same name
MaxEntries == 3     \* entries m_userMap holds at once
MaxNames == 3       \* export function names
MaxTokLen == 2      \* characters of an argument token or of a prefix
MaxArgCalls == 3    \* argPlusMatch calls in one behaviour
MaxFdOpens == 3     \* fdNew and fdNewMcd calls in one behaviour of the file table
MaxFdFails == 1     \* of these, calls whose fopen fails
MaxFdCloses == 2    \* fdClose calls in one behaviour
MaxFdOps == 1       \* fdFlush / fdSeek / fdTell calls in one behaviour
MaxCalls == 3       \* registry calls in one behaviour of the lock-by-lock model

Scopes == 1..MaxScopes
Keys == {1, 2}      \* userKey pointers
Data == {1, 2}      \* userData pointers
Names == 1..MaxNames
NULL == 0

Consumer == 0
Workers == {1, 2}   \* two worker threads
Threads == {Consumer} \cup Workers
TaskIds == 0..MaxTask
Free == -1          \* a mutex nobody holds

\* Argument tokens are strings over three characters; a list holds up to two.
Chars == {"+", "a", "b"}
Tokens == UNION {[1..n -> Chars] : n \in 0..MaxTokLen}
ArgLists == {<<>>} \cup {<<x>> : x \in Tokens} \cup {<<x, y>> : x, y \in Tokens}

\* The file table: m_fdps.resize(31), m_fdFreeMct.resize(30), and the
\* descriptor region fdNew opens at 31 + 1 + 3, ten slots at a time.
FdpsSize == 31
MctSlots == 30
DescStart == 35
Excess == 10

VARIABLES
    \* VerilatedEvalMsgQueue
    m_queue,        \* the multiset, as the sequence its iteration gives
    m_depth,        \* std::atomic<vluint64_t> m_depth
    m_mutex,        \* holder of the queue's m_mutex, or Free
    evalAlive,      \* FALSE once ~VerilatedEvalMsgQueue has run
    \* VerilatedThreadMsgQueue, one per thread (threadton())
    t_queue,        \* t_queue[t]: the std::queue of thread t
    t_msg,          \* t_msg[t]: the msg argument of the post call thread t is in
    endOfEvalReqd,  \* the counter behind Verilated::endOfEvalReqdInc/Dec
    \* control
    pc,             \* pc[t]: where thread t is
    msg,            \* process(): the local copy "const VerilatedMsg msg"
    \* history
    nCreated,       \* nCreated[t]: messages worker t has constructed
    nMsgs,          \* messages constructed so far, or due from a callback
    postLog,        \* postLog[t]: the messages thread t inserted into m_queue, in order
    executed,       \* messages process() has run, in order
    immediate,      \* immediate[t]: messages post() ran at once on thread t, in order
    dropped,        \* messages destroyed, never run, by a queue's destructor
    latePost,       \* an insertion happened since process() was last called
    callBase,       \* Len(executed) when process() was last called
    \* VerilatedImp
    m_userMap,      \* <<scope, userKey>> -> userData
    m_nameMap,      \* scope name -> scope
    m_exportMap,    \* export name -> funcnum
    m_exportNext,
    m_nameMutex,    \* holder of m_nameMutex, or Free
    rpc,            \* rpc[t]: where thread t is inside scopeErase
    rarg,           \* rarg[t]: the scopep argument of that call
    lastCall,       \* the export call that returned last, with what it returned
    exportRet,      \* exportRet[n]: the numbers exportInsert(n) has returned
    lastErase,      \* entries the userEraseScope of the scopeErase under way removed
    fatal,          \* the VL_FATAL_MT diagnostics emitted so far
    m_exportMutex,  \* holder of m_exportMutex, or Free
    \* VerilatedImp: arguments
    m_argVec,       \* the argument list, a sequence of tokens
    m_argVecLoaded,
    m_argMutex,     \* holder of m_argMutex, or Free
    argPrefix,      \* argPrefix[t]: the prefixp of the argPlusMatch call thread t is in
    argLast,        \* the argPlusMatch call made last, with what it returned
    argEverLoaded,  \* commandArgs has been called
    nArgCalls,      \* argPlusMatch calls made so far
    \* VerilatedImp: file IO
    m_fdps,         \* m_fdps[i]: the FILE* of slot i, NULL when the slot is closed
    m_fdFree,
    m_fdFreeMct,
    nFiles,         \* FILE objects fopen has returned so far
    fdClosed,       \* the FILE objects fclose has been called on
    fdUB,           \* fclose has been called on a null pointer
    fdCrashed,      \* that call brought the process down
    fdLast,         \* the file-table call made last, with what it returned
    fdRet,          \* the handles fdNew / fdNewMcd returned last, newest last
    fdOpen,         \* the handles returned and not closed since, in order
    fdReclosed,     \* fdClose has been called on a handle that was not open
    fdGiven,        \* slot indices handed out so far, by class
    fdPend,         \* the fdFlush / fdSeek / fdTell call between fdToFp and its lock
    fdStale,        \* FILE objects a native operation was applied to after fclose
    nFdOpens,       \* fdNew and fdNewMcd calls so far
    nFdFails,       \* of these, calls whose fopen failed
    nFdCloses,      \* fdClose calls so far
    nFdOps,         \* fdFlush / fdSeek / fdTell calls so far
    \* VerilatedImp: the calls of the registry, lock by lock
    m_userMapMutex, \* holder of m_userMapMutex, or Free
    m_hierMapMutex, \* holder of m_hierMapMutex, or Free
    m_fdMutex,      \* holder of m_fdMutex, or Free
    m_hierMap,      \* m_hierMap[from]: the scopes added under from, in order
    lpc,            \* lpc[t]: where thread t is inside a registry call
    lcall,          \* lcall[t]: that call, with its arguments
    lret,           \* lret[t]: what the last userFind / scopeFind of t returned
    nCalls          \* registry calls begun so far

msgVars == <<m_queue, m_depth, m_mutex, evalAlive, t_queue, t_msg, endOfEvalReqd,
             pc, msg, nCreated, nMsgs, postLog, executed, immediate, dropped, latePost,
             callBase>>
scopeVars == <<m_userMap, m_nameMap, m_nameMutex, rpc, rarg, lastErase>>
exportVars == <<m_exportMap, m_exportNext, lastCall, exportRet, m_exportMutex>>
argVars == <<m_argVec, m_argVecLoaded, m_argMutex, argPrefix, argLast, argEverLoaded,
             nArgCalls>>
fdVars == <<m_fdps, m_fdFree, m_fdFreeMct, nFiles, fdClosed, fdUB, fdCrashed, fdLast,
            fdRet, fdOpen, fdReclosed, fdGiven, fdPend, fdStale, nFdOpens, nFdFails,
            nFdCloses, nFdOps>>
lockVars == <<m_userMapMutex, m_hierMapMutex, m_fdMutex, m_hierMap, lpc, lcall, lret,
              nCalls>>
regVars == <<scopeVars, exportVars, argVars, fdVars, lockVars>>
vars == <<msgVars, regVars, fatal, callBase, nMsgs>>

NoMsg == [uid |-> <<0, 0, 0>>, mtaskId |-> 0, reposts |-> FALSE]

\* ------------------------------------------------------------ VerilatedMsg

\* VerilatedMsg(cb): m_mtaskId is Verilated::mtaskId() of the constructing
\* thread. uid names the object: <<t, n, 0>> is the n-th message worker t
\* constructed, <<t, n, 1>> the message its callback posts. reposts says whether
\* the callback m_cb itself posts a message to the eval queue when it runs.
VerilatedMsg(uid, id, re) == [uid |-> uid, mtaskId |-> id, reposts |-> re]

\* VerilatedMsg::Cmp
Cmp(a, b) == a.mtaskId < b.mtaskId

\* std::multiset::insert: the new element goes at the upper bound of its
\* equivalence range, i.e. before the first element it compares less than.
LowerBound(q, m) ==
    LET later == {i \in 1..Len(q) : ~Cmp(q[i], m)}
    IN IF later = {} THEN Len(q) + 1
       ELSE CHOOSE i \in later : \A j \in later : i <= j

UpperBound(q, m) ==
    LET later == {i \in 1..Len(q) : Cmp(m, q[i])}
    IN IF later = {} THEN Len(q) + 1
       ELSE CHOOSE i \in later : \A j \in later : i <= j

InsertFront(q, m) == <<m>> \o q

MultisetInsert(q, m) ==
    LET k == UpperBound(q, m)
    IN SubSeq(q, 1, k - 1) \o <<m>> \o SubSeq(q, k, Len(q))

\* Messages some sequence holds.
Range(s) == {s[i] : i \in 1..Len(s)}

RECURSIVE SumOver(_, _)
SumOver(f, S) ==
    IF S = {} THEN 0
    ELSE LET x == CHOOSE y \in S : TRUE IN f[x] + SumOver(f, S \ {x})

\* Verilated::endOfEvalReqdInc / endOfEvalReqdDec
EndOfEvalReqdInc(c) == c + 1
EndOfEvalReqdDec(c) == c - 1

\* The depth counter is a vluint64_t: -1 stands for 2^64 - 1, so that ++ and --
\* wrap as the unsigned type does.
DepthInc(d) == d + 1
DepthDec(d) == d - 1

\* ------------------------------------------------------------------- Init

MsgInit ==
    /\ m_queue = <<>>
    /\ m_depth = 0
    /\ m_mutex = Free
    /\ evalAlive = TRUE
    /\ t_queue = [t \in Workers |-> <<>>]
    /\ t_msg = [t \in Workers |-> NoMsg]
    /\ endOfEvalReqd = 0
    /\ pc = [t \in Threads |-> "idle"]
    /\ msg = NoMsg
    /\ nCreated = [t \in Workers |-> 0]
    /\ nMsgs = 0
    /\ postLog = [t \in Threads |-> <<>>]
    /\ executed = <<>>
    /\ immediate = [t \in Workers |-> <<>>]
    /\ dropped = {}
    /\ latePost = FALSE
    /\ callBase = 0

\* VerilatedImp(): m_exportNext(0), the maps empty
RegInit ==
    /\ m_userMap = <<>>
    /\ m_nameMap = <<>>
    /\ m_exportMap = <<>>
    /\ m_exportNext = 0
    /\ m_nameMutex = Free
    /\ rpc = [t \in Workers |-> "idle"]
    /\ rarg = [t \in Workers |-> NULL]
    /\ lastCall = [op |-> "none", name |-> 0, ret |-> 0]
    /\ exportRet = [n \in Names |-> {}]
    /\ lastErase = 0
    /\ m_exportMutex = Free

\* VerilatedImp(): m_argVecLoaded(false)
ArgInit ==
    /\ m_argVec = <<>>
    /\ m_argVecLoaded = FALSE
    /\ m_argMutex = Free
    /\ argPrefix = [t \in Workers |-> <<>>]
    /\ argLast = [prefix |-> <<>>, ret |-> <<>>, fatal |-> FALSE]
    /\ argEverLoaded = FALSE
    /\ nArgCalls = 0

NoCall == [op |-> "none", arg |-> {}, ret |-> {}, ok |-> TRUE]
NoPend == [op |-> "none", fdi |-> {}, fp |-> <<>>]

\* VerilatedImp(): m_fdps holds 31 null pointers, m_fdFreeMct holds 1..30
FdInit ==
    /\ m_fdps = [i \in 0..(FdpsSize - 1) |-> NULL]
    /\ m_fdFree = <<>>
    /\ m_fdFreeMct = [i \in 1..MctSlots |-> i]
    /\ nFiles = 0
    /\ fdClosed = {}
    /\ fdUB = FALSE
    /\ fdCrashed = FALSE
    /\ fdLast = NoCall
    /\ fdRet = <<>>
    /\ fdOpen = <<>>
    /\ fdReclosed = FALSE
    /\ fdGiven = [desc |-> {}, mcd |-> {}]
    /\ fdPend = NoPend
    /\ fdStale = {}
    /\ nFdOpens = 0
    /\ nFdFails = 0
    /\ nFdCloses = 0
    /\ nFdOps = 0

NoOp == [op |-> "none", a |-> 0, b |-> 0, h |-> {}, fp |-> <<>>]

\* No thread is inside a call, no lock is held, m_hierMap is empty.
LockInit ==
    /\ m_userMapMutex = Free
    /\ m_hierMapMutex = Free
    /\ m_fdMutex = Free
    /\ m_hierMap = [s \in Scopes |-> <<>>]
    /\ lpc = [t \in Workers |-> "idle"]
    /\ lcall = [t \in Workers |-> NoOp]
    /\ lret = [t \in Workers |-> NULL]
    /\ nCalls = 0

Init == MsgInit /\ RegInit /\ ArgInit /\ FdInit /\ LockInit /\ fatal = {}

\* ------------------------------------------- VerilatedEvalMsgQueue::post

\* The message the callback of the message thread t is running posts: it is
\* constructed on the running thread, with that thread's mtaskId.
Parent(t) == IF t = Consumer THEN msg ELSE t_msg[t]
Child(t, id) == VerilatedMsg(<<Parent(t).uid[1], Parent(t).uid[2], 1>>, id, FALSE)

\* post(), first half: the lock guard is taken and the message inserted.
EvalPostInsert(t, m, next) ==
    /\ m_mutex = Free
    /\ m_mutex' = t
    /\ m_queue' = MultisetInsert(m_queue, m)
    /\ postLog' = [postLog EXCEPT ![t] = Append(postLog[t], m)]
    /\ latePost' = (latePost \/ pc[Consumer] # "idle")
    /\ pc' = [pc EXCEPT ![t] = next]

\* post(), second half: ++m_depth, and the lock guard goes out of scope.
EvalPostInc(t, next) ==
    /\ m_mutex = t
    /\ m_depth' = DepthInc(m_depth)
    /\ m_mutex' = Free
    /\ pc' = [pc EXCEPT ![t] = next]

\* ------------------------------------------ VerilatedThreadMsgQueue::post

ThreadPostNoSentinel(t) ==
    /\ pc[t] = "idle"
    /\ \E id \in TaskIds, re \in BOOLEAN :
         LET n == nCreated[t] + 1
             m == VerilatedMsg(<<t, n, 0>>, id, re)
         IN /\ nMsgs + (IF re THEN 2 ELSE 1) <= MaxMsgs
            /\ re => evalAlive
            /\ nCreated' = [nCreated EXCEPT ![t] = n]
            /\ nMsgs' = nMsgs + (IF re THEN 2 ELSE 1)
            /\ endOfEvalReqd' = EndOfEvalReqdInc(endOfEvalReqd)
            /\ t_msg' = [t_msg EXCEPT ![t] = m]
            /\ pc' = [pc EXCEPT ![t] = "tp_push"]
            /\ UNCHANGED immediate
    /\ UNCHANGED <<m_queue, m_depth, m_mutex, evalAlive, t_queue, msg, postLog,
                   executed, dropped, latePost, regVars, fatal, callBase>>

ThreadPost(t) ==
    /\ pc[t] = "idle"
    /\ \E id \in TaskIds, re \in BOOLEAN :
         LET n == nCreated[t] + 1
             m == VerilatedMsg(<<t, n, 0>>, id, re)
         IN /\ nMsgs + (IF re THEN 2 ELSE 1) <= MaxMsgs
            /\ re => evalAlive
            /\ nCreated' = [nCreated EXCEPT ![t] = n]
            /\ nMsgs' = nMsgs + (IF re THEN 2 ELSE 1)
            /\ IF id = 0
               THEN \* No queueing, just do the action immediately
                    /\ immediate' = [immediate EXCEPT ![t] = Append(immediate[t], m)]
                    /\ pc' = [pc EXCEPT ![t] = IF re THEN "cb_lock" ELSE "idle"]
                    /\ t_msg' = [t_msg EXCEPT ![t] = IF re THEN m ELSE NoMsg]
                    /\ UNCHANGED endOfEvalReqd
               ELSE /\ endOfEvalReqd' = EndOfEvalReqdInc(endOfEvalReqd)
                    /\ t_msg' = [t_msg EXCEPT ![t] = m]
                    /\ pc' = [pc EXCEPT ![t] = "tp_push"]
                    /\ UNCHANGED immediate
    /\ UNCHANGED <<m_queue, m_depth, m_mutex, evalAlive, t_queue, msg, postLog,
                   executed, dropped, latePost, regVars, fatal, callBase>>

\* threadton().m_queue.push(msg)
ThreadPush(t) ==
    /\ pc[t] = "tp_push"
    /\ t_queue' = [t_queue EXCEPT ![t] = Append(t_queue[t], t_msg[t])]
    /\ t_msg' = [t_msg EXCEPT ![t] = NoMsg]
    /\ pc' = [pc EXCEPT ![t] = "idle"]
    /\ UNCHANGED <<m_queue, m_depth, m_mutex, evalAlive, endOfEvalReqd, msg, nCreated,
                   postLog, executed, immediate, dropped, latePost, regVars, fatal, callBase, nMsgs>>

\* The callback that post() ran at once posts a message to the eval queue.
ThreadCbInsert(t) ==
    /\ pc[t] = "cb_lock"
    /\ evalAlive
    /\ EvalPostInsert(t, Child(t, 0), "cb_inc")
    /\ UNCHANGED <<m_depth, evalAlive, t_queue, t_msg, endOfEvalReqd, msg, nCreated,
                   executed, immediate, dropped, regVars, fatal, callBase, nMsgs>>

ThreadCbInc(t) ==
    /\ pc[t] = "cb_inc"
    /\ EvalPostInc(t, "idle")
    /\ t_msg' = [t_msg EXCEPT ![t] = NoMsg]
    /\ UNCHANGED <<m_queue, evalAlive, t_queue, endOfEvalReqd, msg, nCreated, postLog,
                   executed, immediate, dropped, latePost, regVars, fatal, callBase, nMsgs>>

\* ----------------------------------------- VerilatedThreadMsgQueue::flush

FlushCall(t) ==
    /\ pc[t] = "idle"
    /\ evalAlive
    /\ pc' = [pc EXCEPT ![t] = "fl_head"]
    /\ UNCHANGED <<m_queue, m_depth, m_mutex, evalAlive, t_queue, t_msg, endOfEvalReqd,
                   msg, nCreated, postLog, executed, immediate, dropped, latePost,
                   regVars, fatal, callBase, nMsgs>>

FlushInsertBack(t) ==
    /\ pc[t] = "fl_head"
    /\ t_queue[t] # <<>>
    /\ EvalPostInsert(t, t_queue[t][Len(t_queue[t])], "fl_inc")
    /\ UNCHANGED <<m_depth, evalAlive, t_queue, t_msg, endOfEvalReqd, msg, nCreated,
                   executed, immediate, dropped, regVars, fatal, callBase, nMsgs>>

\* while (!empty) evalMsgQp->post(front): up to the insertion
FlushInsert(t) ==
    /\ pc[t] = "fl_head"
    /\ t_queue[t] # <<>>
    /\ EvalPostInsert(t, Head(t_queue[t]), "fl_inc")
    /\ UNCHANGED <<m_depth, evalAlive, t_queue, t_msg, endOfEvalReqd, msg, nCreated,
                   executed, immediate, dropped, regVars, fatal, callBase, nMsgs>>

FlushInc(t) ==
    /\ pc[t] = "fl_inc"
    /\ EvalPostInc(t, "fl_pop")
    /\ UNCHANGED <<m_queue, evalAlive, t_queue, t_msg, endOfEvalReqd, msg, nCreated,
                   postLog, executed, immediate, dropped, latePost, regVars, fatal, callBase, nMsgs>>

\* threadton().m_queue.pop()
FlushPop(t) ==
    /\ pc[t] = "fl_pop"
    /\ t_queue' = [t_queue EXCEPT ![t] = Tail(t_queue[t])]
    /\ pc' = [pc EXCEPT ![t] = "fl_dec"]
    /\ UNCHANGED <<m_queue, m_depth, m_mutex, evalAlive, t_msg, endOfEvalReqd, msg,
                   nCreated, postLog, executed, immediate, dropped, latePost, regVars,
                   fatal, callBase, nMsgs>>

\* Verilated::endOfEvalReqdDec()
FlushDecSkipped(t) ==
    /\ pc[t] = "fl_dec"
    /\ pc' = [pc EXCEPT ![t] = "fl_head"]
    /\ UNCHANGED <<m_queue, m_depth, m_mutex, evalAlive, t_queue, t_msg, endOfEvalReqd,
                   msg, nCreated, postLog, executed, immediate, dropped, latePost,
                   regVars, fatal, callBase, nMsgs>>

FlushDec(t) ==
    /\ pc[t] = "fl_dec"
    /\ endOfEvalReqd' = EndOfEvalReqdDec(endOfEvalReqd)
    /\ pc' = [pc EXCEPT ![t] = "fl_head"]
    /\ UNCHANGED <<m_queue, m_depth, m_mutex, evalAlive, t_queue, t_msg, msg, nCreated,
                   postLog, executed, immediate, dropped, latePost, regVars, fatal, callBase, nMsgs>>

FlushReturn(t) ==
    /\ pc[t] = "fl_head"
    /\ t_queue[t] = <<>>
    /\ pc' = [pc EXCEPT ![t] = "idle"]
    /\ UNCHANGED <<m_queue, m_depth, m_mutex, evalAlive, t_queue, t_msg, endOfEvalReqd,
                   msg, nCreated, postLog, executed, immediate, dropped, latePost,
                   regVars, fatal, callBase, nMsgs>>

\* ~VerilatedThreadMsgQueue, at the teardown of thread t: the body is empty, the
\* std::queue member and the messages it holds are destroyed.
ThreadQueueDestroy(t) ==
    /\ pc[t] = "idle"
    /\ pc' = [pc EXCEPT ![t] = "exited"]
    /\ dropped' = dropped \cup Range(t_queue[t])
    /\ t_queue' = [t_queue EXCEPT ![t] = <<>>]
    /\ UNCHANGED <<m_queue, m_depth, m_mutex, evalAlive, t_msg, endOfEvalReqd, msg,
                   nCreated, postLog, executed, immediate, latePost, regVars, fatal, callBase, nMsgs>>

\* ---------------------------------------- VerilatedEvalMsgQueue::process

ProcessCall ==
    /\ pc[Consumer] \in {"idle", "done"}
    /\ evalAlive
    /\ pc' = [pc EXCEPT ![Consumer] = "test"]
    /\ latePost' = (m_mutex # Free)
    /\ callBase' = Len(executed)
    /\ UNCHANGED <<m_queue, m_depth, m_mutex, evalAlive, t_queue, t_msg, endOfEvalReqd,
                   msg, nCreated, postLog, executed, immediate, dropped, regVars, fatal, nMsgs>>

ProcessTestOffByOne ==
    /\ pc[Consumer] = "test"
    /\ pc' = [pc EXCEPT ![Consumer] = IF m_depth > 1 THEN "lock" ELSE "done"]
    /\ UNCHANGED <<m_queue, m_depth, m_mutex, evalAlive, t_queue, t_msg, endOfEvalReqd,
                   msg, nCreated, postLog, executed, immediate, dropped, latePost,
                   regVars, fatal, callBase, nMsgs>>

\* while (m_depth)
ProcessTest ==
    /\ pc[Consumer] = "test"
    /\ pc' = [pc EXCEPT ![Consumer] = IF m_depth # 0 THEN "lock" ELSE "done"]
    /\ UNCHANGED <<m_queue, m_depth, m_mutex, evalAlive, t_queue, t_msg, endOfEvalReqd,
                   msg, nCreated, postLog, executed, immediate, dropped, latePost,
                   regVars, fatal, callBase, nMsgs>>

\* m_mutex.lock()
ProcessLock ==
    /\ pc[Consumer] = "lock"
    /\ m_mutex = Free
    /\ m_mutex' = Consumer
    /\ pc' = [pc EXCEPT ![Consumer] = "pop"]
    /\ UNCHANGED <<m_queue, m_depth, evalAlive, t_queue, t_msg, endOfEvalReqd, msg,
                   nCreated, postLog, executed, immediate, dropped, latePost, regVars,
                   fatal, callBase, nMsgs>>

\* assert(!m_queue.empty()); msg = *begin(); erase(begin()); m_mutex.unlock()
ProcessPopHoldingLock ==
    /\ pc[Consumer] = "pop"
    /\ IF m_queue = <<>>
       THEN /\ pc' = [pc EXCEPT ![Consumer] = "assert"]
            /\ UNCHANGED <<m_queue, msg, m_mutex>>
       ELSE /\ msg' = Head(m_queue)
            /\ m_queue' = Tail(m_queue)
            /\ m_mutex' = Consumer
            /\ pc' = [pc EXCEPT ![Consumer] = "dec"]
    /\ UNCHANGED <<m_depth, evalAlive, t_queue, t_msg, endOfEvalReqd, nCreated, postLog,
                   executed, immediate, dropped, latePost, regVars, fatal, callBase, nMsgs>>

ProcessPopLast ==
    /\ pc[Consumer] = "pop"
    /\ IF m_queue = <<>>
       THEN /\ pc' = [pc EXCEPT ![Consumer] = "assert"]
            /\ UNCHANGED <<m_queue, msg, m_mutex>>
       ELSE /\ msg' = m_queue[Len(m_queue)]
            /\ m_queue' = SubSeq(m_queue, 1, Len(m_queue) - 1)
            /\ m_mutex' = Free
            /\ pc' = [pc EXCEPT ![Consumer] = "dec"]
    /\ UNCHANGED <<m_depth, evalAlive, t_queue, t_msg, endOfEvalReqd, nCreated, postLog,
                   executed, immediate, dropped, latePost, regVars, fatal, callBase, nMsgs>>

ProcessPop ==
    /\ pc[Consumer] = "pop"
    /\ IF m_queue = <<>>
       THEN /\ pc' = [pc EXCEPT ![Consumer] = "assert"]
            /\ UNCHANGED <<m_queue, msg, m_mutex>>
       ELSE /\ msg' = Head(m_queue)
            /\ m_queue' = Tail(m_queue)
            /\ m_mutex' = Free
            /\ pc' = [pc EXCEPT ![Consumer] = "dec"]
    /\ UNCHANGED <<m_depth, evalAlive, t_queue, t_msg, endOfEvalReqd, nCreated, postLog,
                   executed, immediate, dropped, latePost, regVars, fatal, callBase, nMsgs>>

ProcessDecSkipped ==
    /\ pc[Consumer] = "dec"
    /\ pc' = [pc EXCEPT ![Consumer] = "run"]
    /\ UNCHANGED <<m_queue, m_depth, m_mutex, evalAlive, t_queue, t_msg, endOfEvalReqd,
                   msg, nCreated, postLog, executed, immediate, dropped, latePost,
                   regVars, fatal, callBase, nMsgs>>

\* m_depth--
ProcessDec ==
    /\ pc[Consumer] = "dec"
    /\ m_depth' = DepthDec(m_depth)
    /\ pc' = [pc EXCEPT ![Consumer] = "run"]
    /\ UNCHANGED <<m_queue, m_mutex, evalAlive, t_queue, t_msg, endOfEvalReqd, msg,
                   nCreated, postLog, executed, immediate, dropped, latePost, regVars,
                   fatal, callBase, nMsgs>>

\* msg.run()
ProcessRun ==
    /\ pc[Consumer] = "run"
    /\ executed' = Append(executed, msg)
    /\ pc' = [pc EXCEPT ![Consumer] = IF msg.reposts THEN "cb_lock" ELSE "test"]
    /\ msg' = IF msg.reposts THEN msg ELSE NoMsg
    /\ UNCHANGED <<m_queue, m_depth, m_mutex, evalAlive, t_queue, t_msg, endOfEvalReqd,
                   nCreated, postLog, immediate, dropped, latePost, regVars, fatal, callBase, nMsgs>>

\* The callback process() is running posts a message to this queue.
ProcessCbInsert ==
    /\ pc[Consumer] = "cb_lock"
    /\ \E id \in TaskIds : EvalPostInsert(Consumer, Child(Consumer, id), "cb_inc")
    /\ UNCHANGED <<m_depth, evalAlive, t_queue, t_msg, endOfEvalReqd, msg, nCreated,
                   executed, immediate, dropped, regVars, fatal, callBase, nMsgs>>

ProcessCbInc ==
    /\ pc[Consumer] = "cb_inc"
    /\ EvalPostInc(Consumer, "test")
    /\ msg' = NoMsg
    /\ UNCHANGED <<m_queue, evalAlive, t_queue, t_msg, endOfEvalReqd, nCreated, postLog,
                   executed, immediate, dropped, latePost, regVars, fatal, callBase, nMsgs>>

\* ~VerilatedEvalMsgQueue, at the end of the pass: the body is empty, the
\* multiset member and the messages it holds are destroyed.
EvalQueueDestroy ==
    /\ evalAlive
    /\ pc[Consumer] \in {"idle", "done"}
    /\ \A t \in Workers : pc[t] \in {"idle", "exited", "tp_push"}
    /\ evalAlive' = FALSE
    /\ dropped' = dropped \cup Range(m_queue)
    /\ m_queue' = <<>>
    /\ UNCHANGED <<m_depth, m_mutex, t_queue, t_msg, endOfEvalReqd, pc, msg, nCreated,
                   postLog, executed, immediate, latePost, regVars, fatal, callBase, nMsgs>>

WorkerStep(t) ==
    \/ ThreadPost(t)
    \/ ThreadPush(t)
    \/ ThreadCbInsert(t)
    \/ ThreadCbInc(t)
    \/ FlushCall(t)
    \/ FlushInsert(t)
    \/ FlushInc(t)
    \/ FlushPop(t)
    \/ FlushDec(t)
    \/ FlushReturn(t)

ConsumerStep ==
    \/ ProcessCall
    \/ ProcessTest
    \/ ProcessLock
    \/ ProcessPop
    \/ ProcessDec
    \/ ProcessRun
    \/ ProcessCbInsert
    \/ ProcessCbInc

Next ==
    \/ \E t \in Workers : WorkerStep(t)
    \/ \E t \in Workers : ThreadQueueDestroy(t)
    \/ ConsumerStep
    \/ EvalQueueDestroy

Spec == Init /\ [][Next]_vars

\* ------------------------------------------------------------ VerilatedImp

\* A std::map as a function on the keys it holds.
MapInsert(m, k, v) == [x \in DOMAIN m \cup {k} |-> IF x = k THEN v ELSE m[x]]
MapErase(m, k) == [x \in DOMAIN m \ {k} |-> m[x]]

\* VL_FATAL_MT: the diagnostic is emitted and execution halts.
VL_FATAL_MT(what, arg) == fatal' = fatal \cup {[what |-> what, arg |-> arg]}
Running == fatal = {}

\* ------------------------------------------------------- export numbers

\* insert(it, make_pair(namep, m_exportNext++)); return m_exportNext++;
ExportInsertBody(namep) ==
    IF namep \notin DOMAIN m_exportMap
    THEN /\ m_exportMap' = MapInsert(m_exportMap, namep, m_exportNext)
         /\ m_exportNext' = m_exportNext + 2
         /\ lastCall' = [op |-> "exportInsert", name |-> namep,
                         ret |-> m_exportNext + 1]
         /\ exportRet' = [exportRet EXCEPT ![namep] = @ \cup {m_exportNext + 1}]
    ELSE /\ lastCall' = [op |-> "exportInsert", name |-> namep,
                         ret |-> m_exportMap[namep]]
         /\ exportRet' = [exportRet EXCEPT ![namep] = @ \cup {m_exportMap[namep]}]
         /\ UNCHANGED <<m_exportMap, m_exportNext>>

ExportInsert ==
    /\ Running
    /\ \E namep \in Names : ExportInsertBody(namep)
    /\ UNCHANGED <<msgVars, lockVars, scopeVars, fatal, m_exportMutex, argVars, fdVars>>

ExportFind ==
    /\ Running
    /\ \E namep \in Names :
         IF namep \in DOMAIN m_exportMap
         THEN /\ lastCall' = [op |-> "exportFind", name |-> namep,
                              ret |-> m_exportMap[namep]]
              /\ UNCHANGED <<fatal, m_exportMutex>>
         ELSE \* the lock guard of line 404 is in scope at the VL_FATAL_MT call
              /\ VL_FATAL_MT("exportFind", namep)
              /\ \E t \in Workers : m_exportMutex' = t
              /\ UNCHANGED lastCall
    /\ UNCHANGED <<m_exportMap, m_exportNext, exportRet, msgVars, lockVars, scopeVars, argVars,
                   fdVars>>

\* exportName: the name recorded against funcnum, 0 for "*UNKNOWN*"
ExportNameOf(funcnum) ==
    LET hits == {n \in DOMAIN m_exportMap : m_exportMap[n] = funcnum}
    IN IF hits = {} THEN 0 ELSE CHOOSE n \in hits : \A o \in hits : n <= o

ExportName ==
    /\ Running
    /\ \E funcnum \in 0..(2 * MaxNames) :
         lastCall' = [op |-> "exportName", name |-> ExportNameOf(funcnum),
                      ret |-> funcnum]
    /\ UNCHANGED <<m_exportMap, m_exportNext, exportRet, msgVars, lockVars, scopeVars, fatal,
                   m_exportMutex, argVars, fdVars>>

ExportNext == ExportInsert \/ ExportFind \/ ExportName

SpecExport == Init /\ [][ExportNext]_vars

\* --------------------------------------------------- user data and scopes

\* VerilatedScope::name(): scopes s and s + 2 are two objects of one name.
ScopeName(s) == s % 2

UserFind(m, scopep, userKey) ==
    IF <<scopep, userKey>> \in DOMAIN m THEN m[<<scopep, userKey>>] ELSE NULL

\* The order std::map iterates its keys in.
KeyLess(a, b) == a[1] < b[1] \/ (a[1] = b[1] /\ a[2] < b[2])

RECURSIVE UserEraseFirstOnly(_, _, _)
UserEraseFirstOnly(m, todo, scopep) ==
    IF todo = {} THEN m
    ELSE LET it == CHOOSE k \in todo : \A o \in todo \ {k} : KeyLess(k, o)
         IN IF it[1] = scopep THEN MapErase(m, it)
            ELSE UserEraseFirstOnly(m, todo \ {it}, scopep)

\* for (it = begin(); it != end();) if (it->first.first == scopep) erase(it++);
\* else ++it;  todo holds the keys from it to end().
RECURSIVE UserEraseLoop(_, _, _)
UserEraseLoop(m, todo, scopep) ==
    IF todo = {} THEN m
    ELSE LET it == CHOOSE k \in todo : \A o \in todo \ {k} : KeyLess(k, o)
         IN IF it[1] = scopep THEN UserEraseLoop(MapErase(m, it), todo \ {it}, scopep)
            ELSE UserEraseLoop(m, todo \ {it}, scopep)

UserEraseScope(m, scopep) == UserEraseLoop(m, DOMAIN m, scopep)

\* A thread that is not inside scopeErase makes the call.
SomeCaller == \E t \in Workers : rpc[t] = "idle"

UserInsert ==
    /\ Running
    /\ SomeCaller
    /\ \E scopep \in Scopes, userKey \in Keys, userData \in Data :
         /\ <<scopep, userKey>> \in DOMAIN m_userMap
            \/ Cardinality(DOMAIN m_userMap) < MaxEntries
         /\ m_userMap' = MapInsert(m_userMap, <<scopep, userKey>>, userData)
    /\ UNCHANGED <<m_nameMap, m_nameMutex, rpc, rarg, lastErase, exportVars, msgVars, lockVars,
                   fatal, argVars, fdVars>>

ScopeInsert ==
    /\ Running
    /\ SomeCaller
    /\ m_nameMutex = Free
    /\ \E scopep \in Scopes :
         m_nameMap' = IF ScopeName(scopep) \notin DOMAIN m_nameMap
                      THEN MapInsert(m_nameMap, ScopeName(scopep), scopep)
                      ELSE m_nameMap
    /\ UNCHANGED <<m_userMap, m_nameMutex, rpc, rarg, lastErase, exportVars, msgVars, lockVars,
                   fatal, argVars, fdVars>>

ScopeFind(namep) == IF namep \in DOMAIN m_nameMap THEN m_nameMap[namep] ELSE NULL

\* scopeErase: VerilatedLockGuard lock(s_s.m_nameMutex)
ScopeEraseLock(t) ==
    /\ Running
    /\ rpc[t] = "idle"
    /\ m_nameMutex = Free
    /\ m_nameMutex' = t
    /\ \E scopep \in Scopes : rarg' = [rarg EXCEPT ![t] = scopep]
    /\ rpc' = [rpc EXCEPT ![t] = "erase_user"]
    /\ UNCHANGED <<m_userMap, m_nameMap, lastErase, exportVars, msgVars, lockVars, fatal, argVars,
                   fdVars>>

\* scopeErase: userEraseScope(scopep), under m_userMapMutex
ScopeEraseUser(t) ==
    /\ Running
    /\ rpc[t] = "erase_user"
    /\ m_userMap' = UserEraseScope(m_userMap, rarg[t])
    /\ lastErase' = Cardinality(DOMAIN m_userMap \ DOMAIN m_userMap')
    /\ rpc' = [rpc EXCEPT ![t] = "erase_name"]
    /\ UNCHANGED <<m_nameMap, m_nameMutex, rarg, exportVars, msgVars, lockVars, fatal, argVars,
                   fdVars>>

\* scopeErase: find(scopep->name()), erase(it), and the lock guard is released
ScopeEraseName(t) ==
    /\ Running
    /\ rpc[t] = "erase_name"
    /\ m_nameMap' = IF ScopeName(rarg[t]) \in DOMAIN m_nameMap
                    THEN MapErase(m_nameMap, ScopeName(rarg[t]))
                    ELSE m_nameMap
    /\ m_nameMutex' = Free
    /\ rpc' = [rpc EXCEPT ![t] = "idle"]
    /\ rarg' = [rarg EXCEPT ![t] = NULL]
    /\ lastErase' = 0
    /\ UNCHANGED <<m_userMap, exportVars, msgVars, lockVars, fatal, argVars,
                   fdVars>>

ScopeNext ==
    \/ UserInsert
    \/ ScopeInsert
    \/ \E t \in Workers : ScopeEraseLock(t)
    \/ \E t \in Workers : ScopeEraseUser(t)
    \/ \E t \in Workers : ScopeEraseName(t)

SpecScope == Init /\ [][ScopeNext]_vars

\* ------------------------------------------------------------ arguments

\* A C string read at position i: the terminating NUL from its end on.
Nul == ""
CharAt(str, i) == IF i <= Len(str) THEN str[i] ELSE Nul

\* 0 == strncmp(a, b, len): the first len characters agree, or both strings
\* end before a difference.
RECURSIVE StrNEq(_, _, _, _)
StrNEq(a, b, i, len) ==
    IF i > len THEN TRUE
    ELSE IF CharAt(a, i) # CharAt(b, i) THEN FALSE
    ELSE IF CharAt(a, i) = Nul THEN TRUE
    ELSE StrNEq(a, b, i + 1, len)

\* The scan of argPlusMatch: for each *it in order, if (*it)[0] == '+' and
\* 0 == strncmp(prefixp, it->c_str() + 1, len), return *it; else return "".
RECURSIVE PlusScan(_, _)
PlusScan(argv, prefixp) ==
    IF argv = <<>> THEN <<>>
    ELSE IF /\ CharAt(Head(argv), 1) = "+"
            /\ StrNEq(prefixp, Tail(Head(argv)), 1, Len(prefixp))
         THEN Head(argv)
    ELSE PlusScan(Tail(argv), prefixp)

\* commandArgs(argc, argv): the list is loaded, once.
CommandArgs ==
    /\ m_argMutex = Free
    /\ ~argEverLoaded
    /\ \E argv \in ArgLists : m_argVec' = argv
    /\ m_argVecLoaded' = TRUE
    /\ argEverLoaded' = TRUE
    /\ UNCHANGED <<m_argMutex, argPrefix, argLast, nArgCalls, msgVars, lockVars, scopeVars,
                   exportVars, fdVars, fatal>>

\* argPlusMatch, to its return or to the VL_FATAL_MT call. Line 266 sets
\* m_argVecLoaded before the diagnostic ("Complain only once") and the scan
\* follows it: the function is written for a diagnostic that may return, so a
\* thread at the diagnostic either stays there for good, the lock guard of line
\* 262 in scope, or goes on with ArgPlusMatchResume.
ArgPlusMatch(t) ==
    /\ m_argMutex = Free
    /\ nArgCalls < MaxArgCalls
    /\ nArgCalls' = nArgCalls + 1
    /\ \E prefixp \in Tokens :
         IF m_argVecLoaded
         THEN /\ argLast' = [prefix |-> prefixp, ret |-> PlusScan(m_argVec, prefixp),
                             fatal |-> FALSE]
              /\ UNCHANGED <<m_argVecLoaded, m_argMutex, argPrefix, fatal>>
         ELSE /\ m_argVecLoaded' = TRUE
              /\ VL_FATAL_MT("argPlusMatch", NULL)
              /\ m_argMutex' = t
              /\ argPrefix' = [argPrefix EXCEPT ![t] = prefixp]
              /\ argLast' = [prefix |-> prefixp, ret |-> <<>>, fatal |-> TRUE]
    /\ UNCHANGED <<m_argVec, argEverLoaded, msgVars, lockVars, scopeVars, exportVars, fdVars>>

\* argPlusMatch after the diagnostic: the scan, the return, the lock released.
ArgPlusMatchResume(t) ==
    /\ m_argMutex = t
    /\ argLast' = [prefix |-> argPrefix[t], ret |-> PlusScan(m_argVec, argPrefix[t]),
                   fatal |-> TRUE]
    /\ m_argMutex' = Free
    /\ argPrefix' = [argPrefix EXCEPT ![t] = <<>>]
    /\ UNCHANGED <<m_argVec, m_argVecLoaded, argEverLoaded, nArgCalls, msgVars, lockVars,
                   scopeVars, exportVars, fdVars, fatal>>

ArgNext ==
    \/ CommandArgs
    \/ \E t \in Workers : ArgPlusMatch(t)
    \/ \E t \in Workers : ArgPlusMatchResume(t)

SpecArgs == Init /\ [][ArgNext]_vars

\* -------------------------------------------------------------- file IO

\* An IData handle is the set of the positions of its one bits. Bit 31 marks a
\* descriptor; its low 31 bits are the slot index. An MCD handle has bit i set
\* for channel slot i.
DescBit == 31
BitsOf(n) == {i \in 0..(DescBit - 1) : (n \div (2 ^ i)) % 2 = 1}

RECURSIVE ValOf(_)
ValOf(bits) ==
    IF bits = {} THEN 0
    ELSE LET i == CHOOSE x \in bits : TRUE IN (2 ^ i) + ValOf(bits \ {i})

\* (fdi & (1 << 31)) != 0
IsDesc(fdi) == DescBit \in fdi
\* VL_MASK_I(31) & fdi
DescIdx(fdi) == ValOf(fdi \ {DescBit})
\* idx | (1UL << 31)
DescHandle(idx) == BitsOf(idx) \cup {DescBit}
\* 1 << idx, an IData
McdHandle(idx) == IF idx <= DescBit THEN {idx} ELSE {}

FdSize(fdps) == Cardinality(DOMAIN fdps)
Back(q) == q[Len(q)]
PopBack(q) == SubSeq(q, 1, Len(q) - 1)
MinOf(S) == CHOOSE x \in S : \A y \in S : x <= y

\* History: the two handles returned last, the handles open, the slots given.
Returned(h) == IF Len(fdRet) < 2 THEN Append(fdRet, h) ELSE Append(Tail(fdRet), h)

RECURSIVE RemoveOne(_, _)
RemoveOne(q, h) ==
    IF q = <<>> THEN <<>>
    ELSE IF Head(q) = h THEN Tail(q) ELSE <<Head(q)>> \o RemoveOne(Tail(q), h)

RECURSIVE RemoveAll(_, _)
RemoveAll(q, hs) ==
    IF hs = {} THEN q
    ELSE LET h == CHOOSE x \in hs : TRUE IN RemoveAll(RemoveOne(q, h), hs \ {h})

\* The handles a close of fdi closes: fdi itself, or one handle per channel bit.
PartsOf(fdi) == IF IsDesc(fdi) THEN {fdi} ELSE {{i} : i \in fdi}

\* fdNewMcd without the pop_back: the slot stays on the free list.
FdNewMcdNoPop(ok) ==
    IF m_fdFreeMct = <<>>
    THEN /\ fdLast' = [op |-> "fdNewMcd", arg |-> {}, ret |-> {}, ok |-> TRUE]
         /\ UNCHANGED <<m_fdps, m_fdFreeMct, nFiles, fdRet, fdOpen, fdGiven>>
    ELSE LET idx == Back(m_fdFreeMct)
         IN /\ UNCHANGED m_fdFreeMct
            /\ m_fdps' = [m_fdps EXCEPT ![idx] = IF ok THEN nFiles + 1 ELSE NULL]
            /\ nFiles' = IF ok THEN nFiles + 1 ELSE nFiles
            /\ fdLast' = [op |-> "fdNewMcd", arg |-> {},
                          ret |-> IF ok THEN McdHandle(idx) ELSE {}, ok |-> ok]
            /\ IF ok
               THEN /\ fdRet' = Returned(McdHandle(idx))
                    /\ fdOpen' = Append(fdOpen, McdHandle(idx))
                    /\ fdGiven' = [fdGiven EXCEPT !.mcd = @ \cup {idx}]
               ELSE UNCHANGED <<fdRet, fdOpen, fdGiven>>

\* fdNewMcd, under m_fdMutex; ok says whether fopen(filenamep, "w") succeeds.
FdNewMcdBody(ok) ==
    IF m_fdFreeMct = <<>>
    THEN /\ fdLast' = [op |-> "fdNewMcd", arg |-> {}, ret |-> {}, ok |-> TRUE]
         /\ UNCHANGED <<m_fdps, m_fdFreeMct, nFiles, fdRet, fdOpen, fdGiven>>
    ELSE LET idx == Back(m_fdFreeMct)
         IN /\ m_fdFreeMct' = PopBack(m_fdFreeMct)
            /\ m_fdps' = [m_fdps EXCEPT ![idx] = IF ok THEN nFiles + 1 ELSE NULL]
            /\ nFiles' = IF ok THEN nFiles + 1 ELSE nFiles
            /\ fdLast' = [op |-> "fdNewMcd", arg |-> {},
                          ret |-> IF ok THEN McdHandle(idx) ELSE {}, ok |-> ok]
            /\ IF ok
               THEN /\ fdRet' = Returned(McdHandle(idx))
                    /\ fdOpen' = Append(fdOpen, McdHandle(idx))
                    /\ fdGiven' = [fdGiven EXCEPT !.mcd = @ \cup {idx}]
               ELSE UNCHANGED <<fdRet, fdOpen, fdGiven>>

\* What an fopen failure is charged to.
OpenOutcome(ok) == ok \/ nFdFails < MaxFdFails

FdNewMcd ==
    /\ ~fdCrashed
    /\ nFdOpens < MaxFdOpens
    /\ \E ok \in BOOLEAN :
         /\ OpenOutcome(ok)
         /\ FdNewMcdBody(ok)
         /\ nFdFails' = IF ok \/ m_fdFreeMct = <<>> THEN nFdFails ELSE nFdFails + 1
    /\ nFdOpens' = nFdOpens + 1
    /\ UNCHANGED <<m_fdFree, fdClosed, fdUB, fdCrashed, fdReclosed, fdPend, fdStale,
                   nFdCloses, nFdOps, msgVars, lockVars, scopeVars, exportVars, argVars, fatal>>

\* fdNew: the fopen comes first; an empty m_fdFree is refilled with the ten
\* slots from max(35, m_fdps.size()) on.
FdNewBody(ok) ==
    IF ~ok
    THEN /\ fdLast' = [op |-> "fdNew", arg |-> {}, ret |-> {}, ok |-> FALSE]
         /\ UNCHANGED <<m_fdps, m_fdFree, nFiles, fdRet, fdOpen, fdGiven>>
    ELSE LET grow == m_fdFree = <<>>
             start == IF DescStart > FdSize(m_fdps) THEN DescStart ELSE FdSize(m_fdps)
             fdps == IF grow
                     THEN [i \in 0..(start + Excess - 1) |->
                             IF i \in DOMAIN m_fdps THEN m_fdps[i] ELSE NULL]
                     ELSE m_fdps
             free == IF grow THEN [i \in 1..Excess |-> start + i - 1] ELSE m_fdFree
             idx == Back(free)
         IN /\ m_fdFree' = PopBack(free)
            /\ m_fdps' = [fdps EXCEPT ![idx] = nFiles + 1]
            /\ nFiles' = nFiles + 1
            /\ fdLast' = [op |-> "fdNew", arg |-> {}, ret |-> DescHandle(idx),
                          ok |-> TRUE]
            /\ fdRet' = Returned(DescHandle(idx))
            /\ fdOpen' = Append(fdOpen, DescHandle(idx))
            /\ fdGiven' = [fdGiven EXCEPT !.desc = @ \cup {idx}]

FdNew ==
    /\ ~fdCrashed
    /\ nFdOpens < MaxFdOpens
    /\ \E ok \in BOOLEAN :
         /\ OpenOutcome(ok)
         /\ FdNewBody(ok)
         /\ nFdFails' = IF ok THEN nFdFails ELSE nFdFails + 1
    /\ nFdOpens' = nFdOpens + 1
    /\ UNCHANGED <<m_fdFreeMct, fdClosed, fdUB, fdCrashed, fdReclosed, fdPend, fdStale,
                   nFdCloses, nFdOps, msgVars, lockVars, scopeVars, exportVars, argVars, fatal>>

\* The table as fdClose works on it.
FdTable == [fdps |-> m_fdps, free |-> m_fdFree, freeMct |-> m_fdFreeMct,
            closed |-> fdClosed, ub |-> FALSE, crashed |-> FALSE]

\* fdClose of a descriptor that returns the slot to the channel free list.
FdCloseDescToMct(st, fdi) ==
    LET idx == DescIdx(fdi)
    IN IF idx >= FdSize(st.fdps) THEN st
       ELSE IF st.fdps[idx] = NULL THEN st
       ELSE [st EXCEPT !.closed = @ \cup {st.fdps[idx]},
                       !.fdps[idx] = NULL,
                       !.freeMct = Append(@, idx)]

\* fdClose, non-MCD case
FdCloseDesc(st, fdi) ==
    LET idx == DescIdx(fdi)
    IN IF idx >= FdSize(st.fdps) THEN st
       ELSE IF st.fdps[idx] = NULL THEN st
       ELSE [st EXCEPT !.closed = @ \cup {st.fdps[idx]},
                       !.fdps[idx] = NULL,
                       !.free = Append(@, idx)]

\* fdClose, MCD case: for each one bit i < 31, in ascending order,
\* fclose(m_fdps[i]); m_fdps[i] = NULL; m_fdFreeMct.push_back(i). fclose of a
\* null pointer is undefined: the call returns, or the process dies in it.
RECURSIVE FdCloseMcd(_, _, _)
FdCloseMcd(st, bits, dies) ==
    IF bits = {} THEN st
    ELSE LET i == MinOf(bits)
         IN IF st.fdps[i] = NULL
            THEN IF dies THEN [st EXCEPT !.ub = TRUE, !.crashed = TRUE]
                 ELSE FdCloseMcd([st EXCEPT !.ub = TRUE, !.freeMct = Append(@, i)],
                                 bits \ {i}, dies)
            ELSE FdCloseMcd([st EXCEPT !.closed = @ \cup {st.fdps[i]},
                                       !.fdps[i] = NULL,
                                       !.freeMct = Append(@, i)],
                            bits \ {i}, dies)

FdCloseBody(fdi, dies) ==
    IF IsDesc(fdi) THEN FdCloseDesc(FdTable, fdi)
    ELSE FdCloseMcd(FdTable, fdi \ {DescBit}, dies)

\* The handles a caller passes: one of the two returned last, or the OR of two
\* channel handles.
Handles ==
    Range(fdRet) \cup
    {a \cup b : a, b \in {h \in Range(fdRet) : ~IsDesc(h)}}

FdClose ==
    /\ ~fdCrashed
    /\ nFdCloses < MaxFdCloses
    /\ \E fdi \in Handles, dies \in BOOLEAN :
         LET st == FdCloseBody(fdi, dies)
         IN /\ m_fdps' = st.fdps
            /\ m_fdFree' = st.free
            /\ m_fdFreeMct' = st.freeMct
            /\ fdClosed' = st.closed
            /\ fdUB' = (fdUB \/ st.ub)
            /\ fdCrashed' = st.crashed
            /\ fdLast' = [op |-> "fdClose", arg |-> fdi, ret |-> {}, ok |-> ~st.ub]
            /\ fdOpen' = RemoveAll(fdOpen, PartsOf(fdi))
            /\ fdReclosed' = (fdReclosed \/ ~(PartsOf(fdi) \subseteq Range(fdOpen)))
    /\ nFdCloses' = nFdCloses + 1
    /\ UNCHANGED <<nFiles, fdRet, fdGiven, fdPend, fdStale, nFdOpens, nFdFails, nFdOps,
                   msgVars, lockVars, scopeVars, exportVars, argVars, fatal>>

\* stdin, stdout, stderr, as FILE objects fopen never returns
StdStream(idx) == 0 - (idx + 1)

\* fdToFp(fdi, fp, max), under m_fdMutex: the FILE pointers it stores in fp
FdToFp(fdi, max) ==
    IF IsDesc(fdi)
    THEN LET idx == DescIdx(fdi)
         IN IF idx \in {0, 1, 2} THEN <<StdStream(idx)>>
            ELSE IF idx < FdSize(m_fdps) THEN <<m_fdps[idx]>>
            ELSE <<>>
    ELSE LET RECURSIVE Scan(_, _)
             Scan(bits, out) ==
                 IF bits = {} \/ Len(out) >= max THEN out
                 ELSE Scan(bits \ {MinOf(bits)}, Append(out, m_fdps[MinOf(bits)]))
         IN Scan(fdi, <<>>)

\* fdFlush / fdSeek / fdTell, first statement: fdToFp resolves the handle and
\* gives m_fdMutex up again on return.
FdResolve ==
    /\ ~fdCrashed
    /\ fdPend = NoPend
    /\ nFdOps < MaxFdOps
    /\ \E op \in {"fdFlush", "fdSeek", "fdTell"}, fdi \in Handles :
         fdPend' = [op |-> op, fdi |-> fdi,
                    fp |-> FdToFp(fdi, IF op = "fdFlush" THEN MctSlots ELSE 1)]
    /\ nFdOps' = nFdOps + 1
    /\ UNCHANGED <<m_fdps, m_fdFree, m_fdFreeMct, nFiles, fdClosed, fdUB, fdCrashed,
                   fdLast, fdRet, fdOpen, fdReclosed, fdGiven, fdStale, nFdOpens,
                   nFdFails, nFdCloses, msgVars, lockVars, scopeVars, exportVars, argVars, fatal>>

\* The FILE objects the native call is made on: fflush on every fp[i]; fseek
\* or ftell on fp when it is not null and n == 1.
Operated(pend) ==
    IF pend.op = "fdFlush" THEN Range(pend.fp) \ {NULL}
    ELSE IF Len(pend.fp) = 1 /\ pend.fp[1] # NULL THEN {pend.fp[1]}
    ELSE {}

\* fdFlush / fdSeek / fdTell, the rest: m_fdMutex is taken again and the native
\* call made on what fdToFp stored.
FdOperate ==
    /\ ~fdCrashed
    /\ fdPend # NoPend
    /\ fdStale' = fdStale \cup (Operated(fdPend) \cap fdClosed)
    /\ fdLast' = [op |-> fdPend.op, arg |-> fdPend.fdi, ret |-> {},
                  ok |-> Operated(fdPend) # {}]
    /\ fdPend' = NoPend
    /\ UNCHANGED <<m_fdps, m_fdFree, m_fdFreeMct, nFiles, fdClosed, fdUB, fdCrashed,
                   fdRet, fdOpen, fdReclosed, fdGiven, nFdOpens, nFdFails, nFdCloses,
                   nFdOps, msgVars, lockVars, scopeVars, exportVars, argVars, fatal>>

FdNext == FdNewMcd \/ FdNew \/ FdClose \/ FdResolve \/ FdOperate

SpecFd == Init /\ [][FdNext]_vars

\* The channel pool alone, with no bound on the fdNewMcd calls: every fopen
\* succeeds, so that the pool can run out.
McdNew ==
    /\ ~fdCrashed
    /\ FdNewMcdBody(TRUE)
    /\ UNCHANGED <<m_fdFree, fdClosed, fdUB, fdCrashed, fdReclosed, fdPend, fdStale,
                   nFdOpens, nFdFails, nFdCloses, nFdOps, msgVars, lockVars, scopeVars,
                   exportVars, argVars, fatal>>

McdNext == McdNew \/ FdClose

SpecMcd == Init /\ [][McdNext]_vars

\* ------------------------------------------ registry calls, lock by lock

\* Every call of the registry as its locks see it: the call is made, each
\* VerilatedLockGuard is a step that waits for its mutex, and the body up to
\* the end of the guard's scope is a step that gives the mutex up again.
LkScopes == {1, 3}
LkKey == 1
LkData == 1
LkName == 1

Call(op, a, b, h) == [op |-> op, a |-> a, b |-> b, h |-> h, fp |-> <<>>]

\* The calls a thread can make; a says whether the fopen of fdNew / fdNewMcd
\* succeeds.
LockCalls ==
    {Call(op, s, 0, {}) : op \in {"scopeInsert", "scopeErase", "userInsert", "userFind"},
                          s \in LkScopes}
    \cup {Call("scopeFind", ScopeName(s), 0, {}) : s \in LkScopes}
    \cup {Call("hierarchyAdd", s, u, {}) : s, u \in LkScopes}
    \cup {Call("exportInsert", LkName, 0, {}), Call("exportName", 0, 0, {}),
          Call("fdNewMcd", 0, 0, {}), Call("fdNewMcd", 1, 0, {}),
          Call("fdNew", 1, 0, {})}
    \cup {Call(op, 0, 0, h) : op \in {"fdClose", "fdFlush", "fdSeek", "fdTell"},
                              h \in Handles}

\* The mutex the first lock guard of a call names.
MutexOf(op) ==
    CASE op \in {"scopeInsert", "scopeFind", "scopeErase"} -> "name"
      [] op \in {"userInsert", "userFind"} -> "userMap"
      [] op = "hierarchyAdd" -> "hierMap"
      [] op \in {"exportInsert", "exportName"} -> "export"
      [] OTHER -> "fd"

Holder(l) ==
    CASE l = "name" -> m_nameMutex
      [] l = "userMap" -> m_userMapMutex
      [] l = "hierMap" -> m_hierMapMutex
      [] l = "export" -> m_exportMutex
      [] OTHER -> m_fdMutex

SetMutex(l, v) ==
    /\ m_nameMutex' = IF l = "name" THEN v ELSE m_nameMutex
    /\ m_userMapMutex' = IF l = "userMap" THEN v ELSE m_userMapMutex
    /\ m_hierMapMutex' = IF l = "hierMap" THEN v ELSE m_hierMapMutex
    /\ m_exportMutex' = IF l = "export" THEN v ELSE m_exportMutex
    /\ m_fdMutex' = IF l = "fd" THEN v ELSE m_fdMutex

\* A thread at a lock guard, and the mutex that guard names: userEraseScope,
\* called inside scopeErase, takes m_userMapMutex.
Waiting(t) == lpc[t] \in {"lock", "user_lock", "lock2"}
Wanted(t) == IF lpc[t] = "user_lock" THEN "userMap" ELSE MutexOf(lcall[t].op)

At(t, op) == ~fdCrashed /\ lpc[t] = "body" /\ lcall[t].op = op
Return(t) ==
    /\ lpc' = [lpc EXCEPT ![t] = "idle"]
    /\ lcall' = [lcall EXCEPT ![t] = NoOp]

scopeData == <<m_userMap, m_nameMap>>
exportData == <<m_exportMap, m_exportNext, lastCall, exportRet>>
lkOther == <<msgVars, argVars, fatal, rpc, rarg, lastErase>>

LockCall(t) ==
    /\ ~fdCrashed
    /\ lpc[t] = "idle"
    /\ nCalls < MaxCalls
    /\ nCalls' = nCalls + 1
    /\ \E c \in LockCalls : lcall' = [lcall EXCEPT ![t] = c]
    /\ lpc' = [lpc EXCEPT ![t] = "lock"]
    /\ UNCHANGED <<scopeData, exportData, fdVars, m_hierMap, lret, m_nameMutex,
                   m_userMapMutex, m_hierMapMutex, m_exportMutex, m_fdMutex, lkOther>>

\* fdNew whose fopen fails: return 0, before any lock guard
LockFdNewFails(t) ==
    /\ ~fdCrashed
    /\ lpc[t] = "idle"
    /\ nCalls < MaxCalls
    /\ nCalls' = nCalls + 1
    /\ FdNewBody(FALSE)
    /\ nFdFails' = nFdFails + 1
    /\ nFdOpens' = nFdOpens + 1
    /\ UNCHANGED <<m_fdFreeMct, fdClosed, fdUB, fdCrashed, fdReclosed, fdPend, fdStale,
                   nFdCloses, nFdOps, scopeData, exportData, m_hierMap, lpc, lcall, lret,
                   m_nameMutex, m_userMapMutex, m_hierMapMutex, m_exportMutex, m_fdMutex,
                   lkOther>>

\* VerilatedLockGuard lock(mutex): the thread goes on when it has the mutex.
LockAcquire(t) ==
    /\ ~fdCrashed
    /\ Waiting(t)
    /\ Holder(Wanted(t)) = Free
    /\ SetMutex(Wanted(t), t)
    /\ lpc' = [lpc EXCEPT ![t] = CASE lpc[t] = "lock" -> "body"
                                   [] lpc[t] = "user_lock" -> "user_erase"
                                   [] OTHER -> "operate"]
    /\ UNCHANGED <<scopeData, exportData, fdVars, m_hierMap, lcall, lret, nCalls, lkOther>>

LockScopeInsert(t) ==
    /\ At(t, "scopeInsert")
    /\ m_nameMap' = IF ScopeName(lcall[t].a) \notin DOMAIN m_nameMap
                    THEN MapInsert(m_nameMap, ScopeName(lcall[t].a), lcall[t].a)
                    ELSE m_nameMap
    /\ SetMutex("name", Free)
    /\ Return(t)
    /\ UNCHANGED <<m_userMap, exportData, fdVars, m_hierMap, lret, nCalls, lkOther>>

LockScopeFind(t) ==
    /\ At(t, "scopeFind")
    /\ lret' = [lret EXCEPT ![t] = ScopeFind(lcall[t].a)]
    /\ SetMutex("name", Free)
    /\ Return(t)
    /\ UNCHANGED <<scopeData, exportData, fdVars, m_hierMap, nCalls, lkOther>>

\* scopeErase, holding m_nameMutex: the call of userEraseScope
LockScopeErase(t) ==
    /\ At(t, "scopeErase")
    /\ lpc' = [lpc EXCEPT ![t] = "user_lock"]
    /\ UNCHANGED <<scopeData, exportData, fdVars, m_hierMap, lcall, lret, nCalls,
                   m_nameMutex, m_userMapMutex, m_hierMapMutex, m_exportMutex, m_fdMutex,
                   lkOther>>

\* userEraseScope: the loop, and its lock guard goes out of scope
LockUserErase(t) ==
    /\ ~fdCrashed
    /\ lpc[t] = "user_erase"
    /\ m_userMap' = UserEraseScope(m_userMap, lcall[t].a)
    /\ SetMutex("userMap", Free)
    /\ lpc' = [lpc EXCEPT ![t] = "erase_name"]
    /\ UNCHANGED <<m_nameMap, exportData, fdVars, m_hierMap, lcall, lret, nCalls,
                   lkOther>>

\* scopeErase: the name entry is erased, and its lock guard goes out of scope
LockEraseName(t) ==
    /\ ~fdCrashed
    /\ lpc[t] = "erase_name"
    /\ m_nameMap' = IF ScopeName(lcall[t].a) \in DOMAIN m_nameMap
                    THEN MapErase(m_nameMap, ScopeName(lcall[t].a))
                    ELSE m_nameMap
    /\ SetMutex("name", Free)
    /\ Return(t)
    /\ UNCHANGED <<m_userMap, exportData, fdVars, m_hierMap, lret, nCalls, lkOther>>

\* userInsert that goes for m_nameMutex with m_userMapMutex still held
LockUserInsertThenName(t) ==
    /\ At(t, "userInsert")
    /\ m_userMap' = MapInsert(m_userMap, <<lcall[t].a, LkKey>>, LkData)
    /\ lcall' = [lcall EXCEPT ![t] = Call("scopeInsert", lcall[t].a, 0, {})]
    /\ lpc' = [lpc EXCEPT ![t] = "lock"]
    /\ UNCHANGED <<m_nameMap, exportData, fdVars, m_hierMap, lret, nCalls, m_nameMutex,
                   m_userMapMutex, m_hierMapMutex, m_exportMutex, m_fdMutex, lkOther>>

LockUserInsert(t) ==
    /\ At(t, "userInsert")
    /\ m_userMap' = MapInsert(m_userMap, <<lcall[t].a, LkKey>>, LkData)
    /\ SetMutex("userMap", Free)
    /\ Return(t)
    /\ UNCHANGED <<m_nameMap, exportData, fdVars, m_hierMap, lret, nCalls, lkOther>>

LockUserFind(t) ==
    /\ At(t, "userFind")
    /\ lret' = [lret EXCEPT ![t] = UserFind(m_userMap, lcall[t].a, LkKey)]
    /\ SetMutex("userMap", Free)
    /\ Return(t)
    /\ UNCHANGED <<scopeData, exportData, fdVars, m_hierMap, nCalls, lkOther>>

\* hierarchyAdd: m_hierMap[fromp].push_back(top)
LockHierarchyAdd(t) ==
    /\ At(t, "hierarchyAdd")
    /\ m_hierMap' = [m_hierMap EXCEPT ![lcall[t].a] = Append(@, lcall[t].b)]
    /\ SetMutex("hierMap", Free)
    /\ Return(t)
    /\ UNCHANGED <<scopeData, exportData, fdVars, lret, nCalls, lkOther>>

LockExportInsert(t) ==
    /\ At(t, "exportInsert")
    /\ ExportInsertBody(lcall[t].a)
    /\ SetMutex("export", Free)
    /\ Return(t)
    /\ UNCHANGED <<scopeData, fdVars, m_hierMap, lret, nCalls, lkOther>>

LockExportName(t) ==
    /\ At(t, "exportName")
    /\ lastCall' = [op |-> "exportName", name |-> ExportNameOf(lcall[t].a),
                    ret |-> lcall[t].a]
    /\ SetMutex("export", Free)
    /\ Return(t)
    /\ UNCHANGED <<scopeData, m_exportMap, m_exportNext, exportRet, fdVars, m_hierMap,
                   lret, nCalls, lkOther>>

fdSame == <<scopeData, exportData, m_hierMap, lret, nCalls, lkOther>>

LockFdNewMcd(t) ==
    /\ At(t, "fdNewMcd")
    /\ FdNewMcdBody(lcall[t].a = 1)
    /\ nFdFails' = IF lcall[t].a = 1 \/ m_fdFreeMct = <<>> THEN nFdFails
                   ELSE nFdFails + 1
    /\ nFdOpens' = nFdOpens + 1
    /\ SetMutex("fd", Free)
    /\ Return(t)
    /\ UNCHANGED <<m_fdFree, fdClosed, fdUB, fdCrashed, fdReclosed, fdPend, fdStale,
                   nFdCloses, nFdOps, fdSame>>

LockFdNew(t) ==
    /\ At(t, "fdNew")
    /\ FdNewBody(TRUE)
    /\ nFdOpens' = nFdOpens + 1
    /\ SetMutex("fd", Free)
    /\ Return(t)
    /\ UNCHANGED <<m_fdFreeMct, fdClosed, fdUB, fdCrashed, fdReclosed, fdPend, fdStale,
                   nFdFails, nFdCloses, nFdOps, fdSame>>

LockFdClose(t) ==
    /\ At(t, "fdClose")
    /\ \E dies \in BOOLEAN :
         LET fdi == lcall[t].h
             st == FdCloseBody(fdi, dies)
         IN /\ m_fdps' = st.fdps
            /\ m_fdFree' = st.free
            /\ m_fdFreeMct' = st.freeMct
            /\ fdClosed' = st.closed
            /\ fdUB' = (fdUB \/ st.ub)
            /\ fdCrashed' = st.crashed
            /\ fdLast' = [op |-> "fdClose", arg |-> fdi, ret |-> {}, ok |-> ~st.ub]
            /\ fdOpen' = RemoveAll(fdOpen, PartsOf(fdi))
            /\ fdReclosed' = (fdReclosed \/ ~(PartsOf(fdi) \subseteq Range(fdOpen)))
            /\ IF st.crashed
               THEN UNCHANGED <<lpc, lcall, m_nameMutex, m_userMapMutex, m_hierMapMutex,
                                m_exportMutex, m_fdMutex>>
               ELSE SetMutex("fd", Free) /\ Return(t)
    /\ nFdCloses' = nFdCloses + 1
    /\ UNCHANGED <<nFiles, fdRet, fdGiven, fdPend, fdStale, nFdOpens, nFdFails, nFdOps,
                   fdSame>>

\* fdFlush / fdSeek / fdTell: the body of fdToFp, whose lock guard goes out of
\* scope at its return; the caller's own lock guard comes next.
LockFdToFp(t) ==
    /\ ~fdCrashed
    /\ lpc[t] = "body"
    /\ lcall[t].op \in {"fdFlush", "fdSeek", "fdTell"}
    /\ lcall' = [lcall EXCEPT ![t].fp =
                    FdToFp(lcall[t].h, IF lcall[t].op = "fdFlush" THEN MctSlots ELSE 1)]
    /\ SetMutex("fd", Free)
    /\ lpc' = [lpc EXCEPT ![t] = "lock2"]
    /\ nFdOps' = nFdOps + 1
    /\ UNCHANGED <<m_fdps, m_fdFree, m_fdFreeMct, nFiles, fdClosed, fdUB, fdCrashed,
                   fdLast, fdRet, fdOpen, fdReclosed, fdGiven, fdPend, fdStale, nFdOpens,
                   nFdFails, nFdCloses, fdSame>>

\* fdFlush / fdSeek / fdTell: the native call, under the caller's lock guard
LockFdOperate(t) ==
    /\ ~fdCrashed
    /\ lpc[t] = "operate"
    /\ LET pend == [op |-> lcall[t].op, fdi |-> lcall[t].h, fp |-> lcall[t].fp]
       IN /\ fdStale' = fdStale \cup (Operated(pend) \cap fdClosed)
          /\ fdLast' = [op |-> pend.op, arg |-> pend.fdi, ret |-> {},
                        ok |-> Operated(pend) # {}]
    /\ SetMutex("fd", Free)
    /\ Return(t)
    /\ UNCHANGED <<m_fdps, m_fdFree, m_fdFreeMct, nFiles, fdClosed, fdUB, fdCrashed,
                   fdRet, fdOpen, fdReclosed, fdGiven, fdPend, nFdOpens, nFdFails,
                   nFdCloses, nFdOps, fdSame>>

LockStep(t) ==
    \/ LockCall(t)
    \/ LockFdNewFails(t)
    \/ LockAcquire(t)
    \/ LockScopeInsert(t)
    \/ LockScopeFind(t)
    \/ LockScopeErase(t)
    \/ LockUserErase(t)
    \/ LockEraseName(t)
    \/ LockUserInsert(t)
    \/ LockUserFind(t)
    \/ LockHierarchyAdd(t)
    \/ LockExportInsert(t)
    \/ LockExportName(t)
    \/ LockFdNewMcd(t)
    \/ LockFdNew(t)
    \/ LockFdClose(t)
    \/ LockFdToFp(t)
    \/ LockFdOperate(t)

LockNext == \E t \in Workers : LockStep(t)

SpecLocks == Init /\ [][LockNext]_vars

\* The scheduler runs every thread that can take a step: the consumer inside
\* process(), and a worker inside post() or flush().
FairSpec ==
    /\ Spec
    /\ WF_vars(ProcessTest \/ ProcessLock \/ ProcessPop \/ ProcessDec \/ ProcessRun
               \/ ProcessCbInsert \/ ProcessCbInc)
    /\ \A t \in Workers :
         WF_vars(ThreadPush(t) \/ ThreadCbInsert(t) \/ ThreadCbInc(t) \/ FlushInsert(t)
                 \/ FlushInc(t) \/ FlushPop(t) \/ FlushDec(t) \/ FlushReturn(t))

\* ------------------------------------------------------------ properties

\* What process() has run since it was last called, and before that.
CallExecuted == SubSeq(executed, callBase + 1, Len(executed))
EarlierExecuted == SubSeq(executed, 1, callBase)
AllPosted == UNION {Range(postLog[t]) : t \in Threads}
NonDecreasing(s) ==
    \A i, j \in 1..Len(s) : i < j => s[i].mtaskId <= s[j].mtaskId
Distinct(s) == \A i, j \in 1..Len(s) : i # j => s[i] # s[j]

\* C1: when every post into the eval queue completed before process() was
\* called, process() returns having run every posted message exactly once, in
\* non-decreasing mtaskId order.
C1_DrainRunsAllInOrder ==
    (pc[Consumer] = "done" /\ ~latePost) =>
        /\ NonDecreasing(CallExecuted)
        /\ Range(CallExecuted) = AllPosted \ Range(EarlierExecuted)
        /\ Distinct(executed)

\* Two messages of two threads, with different mtaskIds, drained by one call.
C1_Witness ==
    /\ pc[Consumer] = "done" /\ ~latePost
    /\ Len(CallExecuted) >= 2
    /\ \E i, j \in 1..Len(CallExecuted) :
         /\ CallExecuted[i].uid[1] # CallExecuted[j].uid[1]
         /\ CallExecuted[i].mtaskId < CallExecuted[j].mtaskId

\* C2 as stated: under every interleaving, posts that arrive during the drain
\* included, process() never runs a message after one with a higher mtaskId.
C2_AscendingUnderEveryInterleaving == NonDecreasing(CallExecuted)

\* C2, amended: the message process() pops is one with the lowest mtaskId among
\* the messages in the container at that moment.
C2_PopsLowest ==
    [][(pc[Consumer] = "pop" /\ pc'[Consumer] = "dec") =>
          \A i \in 1..Len(m_queue) : msg'.mtaskId <= m_queue[i].mtaskId]_vars

\* A post arrived after process() was called, and process() has popped the
\* lower of two messages, leaving the higher behind.
C2_Witness ==
    /\ pc[Consumer] = "dec"
    /\ latePost
    /\ m_queue # <<>>
    /\ msg.mtaskId < m_queue[1].mtaskId

\* C3: with no post after the drain began, process() returns with the
\* container empty and the depth zero; and a call of process() always returns.
C3_ProcessTerminates ==
    /\ []((pc[Consumer] = "done" /\ ~latePost) => (m_queue = <<>> /\ m_depth = 0))
    /\ [](pc[Consumer] # "assert")
    /\ ((pc[Consumer] = "test") ~> (pc[Consumer] = "done"))

\* process() has returned from a drain of two messages nobody added to.
C3_Witness ==
    /\ pc[Consumer] = "done" /\ ~latePost
    /\ Len(CallExecuted) >= 2

\* C4: process() does not hold m_mutex while the message it popped runs, so a
\* callback that posts to the same queue can take the lock; and what callbacks
\* posted has been run when process() returns.
C4_RunsOutsideLock ==
    /\ pc[Consumer] \in {"dec", "run", "cb_lock"} => m_mutex # Consumer
    /\ pc[Consumer] = "done" => Range(postLog[Consumer]) \subseteq Range(executed)

\* A callback posted during the drain and process() returned after running it.
C4_Witness ==
    /\ pc[Consumer] = "done"
    /\ postLog[Consumer] # <<>>
    /\ \E i \in 1..Len(CallExecuted) : CallExecuted[i].uid[3] = 1
    /\ \E i \in 1..Len(CallExecuted) : CallExecuted[i].reposts

\* C5: VerilatedThreadMsgQueue::post outside any mtask runs the message at
\* once, stages nothing and leaves the counter; inside an mtask it runs
\* nothing, adds one to the counter and appends the message to the calling
\* thread's own queue only.
C5_PostCall(t) ==
    (pc[t] = "idle" /\ nCreated'[t] = nCreated[t] + 1) =>
        LET uid == <<t, nCreated'[t], 0>>
        IN \/ /\ \E m \in Range(immediate'[t]) :
                   /\ m.uid = uid
                   /\ m.mtaskId = 0
                   /\ immediate'[t] = Append(immediate[t], m)
              /\ pc'[t] # "tp_push"
              /\ t_queue' = t_queue
              /\ endOfEvalReqd' = endOfEvalReqd
              /\ executed' = executed
           \/ /\ t_msg'[t].uid = uid
              /\ t_msg'[t].mtaskId # 0
              /\ pc'[t] = "tp_push"
              /\ immediate' = immediate
              /\ executed' = executed
              /\ t_queue' = t_queue
              /\ endOfEvalReqd' = endOfEvalReqd + 1

C5_PostPush(t) ==
    (pc[t] = "tp_push" /\ pc'[t] # "tp_push") =>
        /\ pc'[t] = "idle"
        /\ t_queue' = [t_queue EXCEPT ![t] = Append(t_queue[t], t_msg[t])]
        /\ endOfEvalReqd' = endOfEvalReqd
        /\ immediate' = immediate
        /\ executed' = executed

\* C5: every post call of every worker thread does the above.
C5_StagingPost ==
    [][\A t \in Workers : C5_PostCall(t) /\ C5_PostPush(t)]_vars

\* One thread has run a message at once, another has staged one.
C5_Witness ==
    /\ \E t \in Workers : Len(immediate[t]) = 1 /\ t_queue[t] = <<>>
    /\ \E t \in Workers : Len(t_queue[t]) = 1 /\ pc[t] = "idle"
    /\ endOfEvalReqd = 1

\* C6: flush() moves the messages of the calling thread's queue, all of them
\* and no others, into the eval queue in the order they were staged, takes one
\* from the counter per message, leaves the queue empty, and leaves the other
\* threads' queues alone.
IsOriginal(m) == m.uid[3] = 0
FlushPosted(t) == SelectSeq(postLog[t], IsOriginal)
InFlight(t) == pc[t] \in {"fl_inc", "fl_pop"}
Remaining(t) == IF InFlight(t) THEN Tail(t_queue[t]) ELSE t_queue[t]
StagingDropped == dropped \ AllPosted
Pending(t) == IF pc[t] = "tp_push" THEN {t_msg[t]} ELSE {}

C6_Transfer(t) ==
    LET moved == FlushPosted(t) \o Remaining(t)
        elsewhere == Pending(t) \cup Range(immediate[t])
                     \cup {m \in StagingDropped : m.uid[1] = t}
    IN /\ InFlight(t) =>
            /\ t_queue[t] # <<>>
            /\ FlushPosted(t) # <<>>
            /\ Head(t_queue[t]) = FlushPosted(t)[Len(FlushPosted(t))]
       /\ \A i \in 1..Len(moved) : moved[i].uid[1] = t /\ moved[i].mtaskId # 0
       /\ \A i, j \in 1..Len(moved) : i < j => moved[i].uid[2] < moved[j].uid[2]
       /\ {m.uid[2] : m \in Range(moved) \cup elsewhere} = 1..nCreated[t]
       /\ Range(moved) \cap elsewhere = {}
       /\ Range(FlushPosted(t)) \subseteq
            Range(m_queue) \cup Range(executed) \cup {msg} \cup dropped

C6_Counter ==
    endOfEvalReqd =
        SumOver([t \in Workers |->
                    Len(t_queue[t])
                    + (IF pc[t] \in {"tp_push", "fl_dec"} THEN 1 ELSE 0)], Workers)
        + Cardinality(StagingDropped)

C6_FlushStep(t) ==
    /\ (pc[t] = "fl_head" /\ pc'[t] = "idle") => t_queue'[t] = <<>>
    /\ (pc[t] \in {"fl_head", "fl_inc", "fl_pop", "fl_dec"} /\ pc'[t] # pc[t]) =>
           \A u \in Workers \ {t} : t_queue'[u] = t_queue[u]

\* C6: the transfer and the counter hold throughout, and each flush step keeps
\* to the calling thread's queue and returns with it empty.
C6_FlushTransfers ==
    /\ [](C6_Counter /\ \A t \in Workers : C6_Transfer(t))
    /\ [][\A t \in Workers : C6_FlushStep(t)]_vars

\* A thread has flushed the two messages it staged.
C6_Witness ==
    \E t \in Workers :
        /\ pc[t] = "idle"
        /\ Len(FlushPosted(t)) = 2
        /\ t_queue[t] = <<>>
        /\ endOfEvalReqd = 0

\* C7: a queue destroyed while it holds messages reports a fatal error: no
\* message is destroyed unrun without a diagnostic.
C7_DestroyNonEmptyIsFatal == (dropped # {}) => (fatal # {})

\* C8: every call of exportInsert(name), the first included, returns the same
\* number, and no number returned for or recorded against one name is returned
\* for or recorded against another.
NumbersOf(n) ==
    exportRet[n] \cup (IF n \in DOMAIN m_exportMap THEN {m_exportMap[n]} ELSE {})

C8_NumbersNotShared ==
    \A n1, n2 \in Names : n1 # n2 => NumbersOf(n1) \cap NumbersOf(n2) = {}

\* C8: both halves of the claim.
C8_ExportInsertIdempotent ==
    /\ \A n \in Names : Cardinality(exportRet[n]) <= 1
    /\ C8_NumbersNotShared

\* C9: exportFind(name) returns the number exportInsert(name) returned; of a
\* name never inserted it emits the fatal diagnostic, returns nothing, and
\* leaves m_exportMap and m_exportNext as they were.
C9_ExportFindReturnsInserted ==
    /\ [](lastCall.op = "exportFind" => exportRet[lastCall.name] = {lastCall.ret})
    /\ [][(lastCall' # lastCall /\ lastCall'.op = "exportFind") =>
             exportRet[lastCall'.name] # {}]_vars
    /\ [][fatal' # fatal =>
             /\ \E n \in Names :
                  /\ exportRet[n] = {}
                  /\ fatal' = fatal \cup {[what |-> "exportFind", arg |-> n]}
             /\ UNCHANGED <<m_exportMap, m_exportNext, lastCall>>]_vars

\* C10: the userEraseScope(S) of scopeErase(S) removes every entry keyed by
\* <<S, k>> and leaves every other entry, with its value; userFind(S, k) then
\* returns NULL for every k; the rest of scopeErase leaves m_userMap alone.
C10_EraseStep(t) ==
    /\ (rpc[t] = "erase_user" /\ rpc'[t] = "erase_name") =>
         /\ \A k \in DOMAIN m_userMap' : k[1] # rarg[t]
         /\ \A k \in DOMAIN m_userMap :
              k[1] # rarg[t] => (k \in DOMAIN m_userMap' /\ m_userMap'[k] = m_userMap[k])
         /\ DOMAIN m_userMap' \subseteq DOMAIN m_userMap
         /\ \A k \in Keys : UserFind(m_userMap', rarg[t], k) = NULL
    /\ (rpc[t] # "erase_user" /\ rpc'[t] # rpc[t]) => m_userMap' = m_userMap

\* C10: every scopeErase of every thread does the above.
C10_ScopeEraseUserData == [][\A t \in Workers : C10_EraseStep(t)]_vars

\* userEraseScope has just removed two entries of its scope and left another
\* scope's entry behind.
C10_Witness ==
    \E t \in Workers :
        /\ rpc[t] = "erase_name"
        /\ lastErase >= 2
        /\ \E k \in DOMAIN m_userMap : k[1] # rarg[t]
        /\ \A k \in Keys : UserFind(m_userMap, rarg[t], k) = NULL

\* -------------------------------------------------- depth, ties, counter

\* C16: whenever the consumer tests m_depth, or has seen it positive and goes
\* for the lock, m_depth is at most the size of the container; a positive
\* m_depth seen means a non-empty container under the lock, so the assertion
\* holds; and with no post between its insert and its ++m_depth and process()
\* not between its erase and its m_depth--, m_depth is the container's size.
C16_DepthMirrorsSize ==
    evalAlive =>
        /\ pc[Consumer] \in {"test", "lock", "pop"} =>
             (0 <= m_depth /\ m_depth <= Len(m_queue))
        /\ pc[Consumer] \in {"lock", "pop"} => (m_depth > 0 /\ m_queue # <<>>)
        /\ pc[Consumer] # "assert"
        /\ (m_mutex = Free /\ pc[Consumer] # "dec") => m_depth = Len(m_queue)

\* The consumer has seen a positive depth while a producer is between its
\* insert and its ++m_depth.
C16_Witness ==
    /\ pc[Consumer] = "lock"
    /\ m_mutex \in Workers
    /\ m_depth >= 1
    /\ Len(m_queue) > m_depth

SameTask(a, b) == a.mtaskId = b.mtaskId

\* C17: an insertion puts the message after every message of its mtaskId the
\* container holds and moves no other; process() takes the first.
C17_Step ==
    /\ Len(m_queue') = Len(m_queue) + 1 =>
         \E k \in 1..Len(m_queue') :
             /\ m_queue = SubSeq(m_queue', 1, k - 1) \o SubSeq(m_queue', k + 1, Len(m_queue'))
             /\ \A i \in 1..Len(m_queue') :
                  (i # k /\ SameTask(m_queue'[i], m_queue'[k])) => i < k
    /\ (pc[Consumer] = "pop" /\ pc'[Consumer] = "dec") =>
         (msg' = Head(m_queue) /\ m_queue' = Tail(m_queue))

\* C17: the messages one thread staged under one mtask run in the order it
\* posted them.
C17_ThreadFifo ==
    \A i, j \in 1..Len(executed) :
        (/\ i < j
         /\ SameTask(executed[i], executed[j])
         /\ IsOriginal(executed[i]) /\ IsOriginal(executed[j])
         /\ executed[i].uid[1] = executed[j].uid[1])
        => executed[i].uid[2] < executed[j].uid[2]

\* C17: messages of equal mtaskId are run by process() in the order they were
\* inserted, and those one thread staged under one mtask and flushed in the
\* order that thread posted them.
C17_TiesInInsertionOrder == []C17_ThreadFifo /\ [][C17_Step]_vars

\* Two messages one thread staged under one mtask have both been run.
C17_Witness ==
    \E i, j \in 1..Len(executed) :
        /\ i < j
        /\ SameTask(executed[i], executed[j])
        /\ executed[i].mtaskId # 0
        /\ IsOriginal(executed[i]) /\ IsOriginal(executed[j])
        /\ executed[i].uid[1] = executed[j].uid[1]

Staged == SumOver([t \in Workers |-> Len(t_queue[t])], Workers)
NoStagingCall == \A t \in Workers : pc[t] \in {"idle", "exited"}

\* C18: while posts and flushes are all that happens to the staging queues, the
\* counter is never negative and never below the number of staged messages; it
\* equals that number when no thread is inside post or flush, and is zero once
\* every thread has flushed.
C18_CounterCoversStaged ==
    StagingDropped = {} =>
        /\ endOfEvalReqd >= 0
        /\ endOfEvalReqd >= Staged
        /\ NoStagingCall => endOfEvalReqd = Staged
        /\ (NoStagingCall /\ \A t \in Workers : t_queue[t] = <<>>) => endOfEvalReqd = 0

\* Both threads have staged, one has flushed, and nobody is inside a call.
C18_Witness ==
    /\ StagingDropped = {}
    /\ \A t \in Workers : pc[t] = "idle"
    /\ \E t \in Workers : t_queue[t] # <<>>
    /\ \E t \in Workers : t_queue[t] = <<>> /\ FlushPosted(t) # <<>>
    /\ endOfEvalReqd = Staged

\* ------------------------------------------------- file table properties

ChannelSlots == 1..MctSlots
OpenStep(op) == nFdOpens' # nFdOpens /\ fdLast'.op = op
CloseStep == nFdCloses' # nFdCloses

\* C11: no slot index is handed out, or waits on a free list, for both classes.
C11_NoCrossing ==
    /\ fdGiven.mcd \subseteq ChannelSlots
    /\ fdGiven.desc \cap ChannelSlots = {}
    /\ fdGiven.desc \cap fdGiven.mcd = {}
    /\ Range(m_fdFreeMct) \subseteq ChannelSlots
    /\ Range(m_fdFree) \cap ChannelSlots = {}

\* C11: fdClose of an open handle, no handle having been closed twice, leaves
\* its slot at the back of the free list of its class, and the next fdNew /
\* fdNewMcd hands out the slot at the back.
C11_Reuse ==
    /\ (CloseStep /\ ~fdReclosed /\ PartsOf(fdLast'.arg) \subseteq Range(fdOpen)) =>
         \A h \in PartsOf(fdLast'.arg) :
             IF IsDesc(h) THEN Back(m_fdFree') = DescIdx(h)
             ELSE h \subseteq Range(m_fdFreeMct')
    /\ (CloseStep /\ ~fdReclosed /\ fdLast'.arg \in Range(fdOpen)
        /\ ~IsDesc(fdLast'.arg)) =>
         {Back(m_fdFreeMct')} = fdLast'.arg
    /\ (OpenStep("fdNew") /\ fdLast'.ok /\ m_fdFree # <<>>) =>
         fdLast'.ret = DescHandle(Back(m_fdFree))
    /\ (OpenStep("fdNewMcd") /\ fdLast'.ok /\ m_fdFreeMct # <<>>) =>
         fdLast'.ret = McdHandle(Back(m_fdFreeMct))

\* C11: a slot freed by fdClose is handed out again by the next allocation of
\* its class, for descriptors and for channels, and under every sequence of
\* fdNew, fdNewMcd and fdClose calls no descriptor slot is handed out as a
\* channel bit and no channel slot 1..30 as a descriptor slot.
C11_FreedSlotIsReused == []C11_NoCrossing /\ [][C11_Reuse]_vars

\* fdNew, fdClose of the handle, fdNew: two files, one descriptor slot.
C11_Witness ==
    /\ fdLast.op = "fdNew"
    /\ fdLast.ok
    /\ nFiles = 2
    /\ Cardinality(fdGiven.desc) = 1
    /\ fdGiven.mcd = {}

\* Every slot fdi names is closed.
AlreadyClosed(fdi) ==
    IF IsDesc(fdi)
    THEN DescIdx(fdi) < FdSize(m_fdps) /\ m_fdps[DescIdx(fdi)] = NULL
    ELSE fdi # {} /\ \A i \in fdi : m_fdps[i] = NULL

\* C12: fdClose of a handle whose slots are all closed already, descriptor or
\* channel bitmask, changes neither m_fdps nor a free list and makes no call of
\* fclose.
C12_SecondCloseIsNoOp ==
    [][(CloseStep /\ AlreadyClosed(fdLast'.arg)) =>
          /\ UNCHANGED <<m_fdps, m_fdFree, m_fdFreeMct, fdClosed>>
          /\ fdLast'.ok]_vars

\* C12, the descriptor half alone.
C12_DescSecondCloseIsNoOp ==
    [][(CloseStep /\ AlreadyClosed(fdLast'.arg) /\ IsDesc(fdLast'.arg)) =>
          /\ UNCHANGED <<m_fdps, m_fdFree, m_fdFreeMct, fdClosed>>
          /\ fdLast'.ok]_vars

\* C20: an fdNewMcd whose fopen fails returns zero and leaves m_fdps and the
\* channel free list as they were.
C20_FailedOpenChangesNothing ==
    [][(OpenStep("fdNewMcd") /\ ~fdLast'.ok) =>
          /\ fdLast'.ret = {}
          /\ UNCHANGED <<m_fdps, m_fdFreeMct>>]_vars

\* C19: no fflush, fseek or ftell is made on a FILE that fdClose has closed.
C19_NoOperationAfterClose == fdStale = {}

\* C13: what fdNewMcd returned, and the channels open.
C13_Channels ==
    /\ fdLast.op = "fdNewMcd" =>
         fdLast.ret = {} \/ \E i \in ChannelSlots : fdLast.ret = {i}
    /\ ~fdReclosed =>
         /\ \A i, j \in 1..Len(fdOpen) : i # j => fdOpen[i] # fdOpen[j]
         /\ Len(fdOpen) <= MctSlots
         /\ \A i \in 1..Len(fdOpen) : \A b \in fdOpen[i] : m_fdps[b] # NULL

C14_NoLockAtFatal ==
    [][fatal' # fatal =>
          /\ m_argMutex' = Free
          /\ m_exportMutex' = Free
          /\ m_nameMutex' = Free]_vars

\* tok begins with '+' and its remainder starts with prefix.
PlusMatches(tok, prefix) ==
    /\ Len(tok) >= 1 + Len(prefix)
    /\ tok[1] = "+"
    /\ \A k \in 1..Len(prefix) : tok[k + 1] = prefix[k]

FirstMatch(argv, prefix) ==
    LET hits == {i \in 1..Len(argv) : PlusMatches(argv[i], prefix)}
    IN IF hits = {} THEN <<>> ELSE argv[MinOf(hits)]

QueryStep == nArgCalls' # nArgCalls

\* C15, with a list loaded: the first matching token or the empty string is
\* returned, no diagnostic is emitted and the argument store is unchanged.
C15_LoadedLookup ==
    [][(QueryStep /\ argEverLoaded) =>
          /\ argLast'.ret = FirstMatch(m_argVec, argLast'.prefix)
          /\ ~argLast'.fatal
          /\ UNCHANGED <<m_argVec, m_argVecLoaded, fatal>>]_vars

\* C15, the first query made with no list loaded.
C15_FirstEarlyQueryIsFatal ==
    [][(QueryStep /\ ~argEverLoaded /\ nArgCalls = 0) => argLast'.fatal]_vars

\* C15: with a list loaded argPlusMatch returns the first matching token or
\* the empty string and leaves the store alone; every argPlusMatch made while
\* no list has been loaded, the first or a later one, emits the fatal
\* diagnostic.
C15_PlusArgLookup ==
    [][QueryStep =>
          IF argEverLoaded
          THEN /\ argLast'.ret = FirstMatch(m_argVec, argLast'.prefix)
               /\ ~argLast'.fatal
               /\ UNCHANGED <<m_argVec, m_argVecLoaded, fatal>>
          ELSE argLast'.fatal]_vars

\* ------------------------------------------------------- scope names

\* C21: scopeErase(S) removes no name entry that maps to another scope: an
\* entry whose scope is not S is still there, unchanged, after the call.
C21_EraseKeepsOtherScopes ==
    [][\A t \in Workers :
          (rpc[t] = "erase_name" /\ rpc'[t] = "idle") =>
              \A n \in DOMAIN m_nameMap :
                  m_nameMap[n] # rarg[t] =>
                      (n \in DOMAIN m_nameMap' /\ m_nameMap'[n] = m_nameMap[n])]_vars

\* C21, for the entry of S itself: scopeErase(S) removes it.
C21_EraseRemovesOwnEntry ==
    [][\A t \in Workers :
          (rpc[t] = "erase_name" /\ rpc'[t] = "idle") =>
              \A n \in DOMAIN m_nameMap' : m_nameMap'[n] # rarg[t]]_vars

\* ----------------------------------------------------------- registry locks

AllMutexes == {"name", "userMap", "hierMap", "export", "fd"}
HeldBy(t) == {l \in AllMutexes : Holder(l) = t}
InCall == {t \in Workers : lpc[t] # "idle"}
Blocked(t) == Waiting(t) /\ Holder(Wanted(t)) # Free

\* C22: a thread holds two locks only inside scopeErase, m_userMapMutex taken
\* under m_nameMutex; no thread waits for a lock while it holds one except
\* there; a thread that is not inside a call holds no lock; and the threads
\* inside calls are never all waiting for a lock another thread holds.
C22_NoDeadlock ==
    ~fdCrashed =>
        /\ \A t \in Workers :
             /\ Cardinality(HeldBy(t)) > 1 =>
                  (lcall[t].op = "scopeErase" /\ HeldBy(t) = {"name", "userMap"}
                   /\ lpc[t] = "user_erase")
             /\ (Waiting(t) /\ HeldBy(t) # {}) =>
                  (lpc[t] = "user_lock" /\ HeldBy(t) = {"name"})
             /\ (Waiting(t) /\ Wanted(t) = "name") => HeldBy(t) = {}
             /\ lpc[t] = "idle" => HeldBy(t) = {}
        /\ InCall # {} => \E t \in InCall : ~Blocked(t)

\* A thread inside scopeErase holds m_nameMutex and waits for m_userMapMutex,
\* which a thread inside userInsert holds.
C22_Witness ==
    \E t, u \in Workers :
        /\ lpc[t] = "user_lock"
        /\ m_nameMutex = t
        /\ m_userMapMutex = u
        /\ lcall[u].op = "userInsert"

====
